---- MODULE Spec2Model ----
(***************************************************************************)
(* State-machine model of the notes application: the persisted "notes"    *)
(* key of AsyncStorage, the Home, Note and Settings screens and the        *)
(* asynchronous storage requests they issue.                               *)
(*                                                                         *)
(* Strings are sequences of one-character strings.  AsyncStorage serves    *)
(* the requests of the single JavaScript thread in the order they were     *)
(* issued; a request and the continuation that awaits it are one step.     *)
(* Every request may fail (the promise rejects).                           *)
(***************************************************************************)
EXTENDS Integers, Sequences, FiniteSets, TLC

(* Bounds of the model: the latest clock reading, the number of save, delete *)
(* and clear requests the user starts, the number of pending requests.      *)
MaxClock == 1
MaxOps == 3
MaxQueue == 2

(* The greatest number of notes persisted when the application is launched *)
(* to render the lists of Home.                                            *)
MaxStored == 4

(* Program constants. *)
MAX_CONTENT_LENGTH == 200
MIN_CONTENT_LENGTH == 1
CATEGORIES == <<"work-study", "life", "health">>

VARIABLES
  storage,     \* the "notes" key: [present, notes]
  clock,       \* the latest reading of the clock
  screen,      \* the focused screen
  homeNotes,   \* HomeScreen's notes state
  alert,       \* the confirmation dialog that is open, if any
  note,        \* NoteScreen's route params and state
  summary,     \* SummaryScreen: whether it is mounted, and its state
  queue,       \* storage requests issued and not yet served, oldest first
  clearTimer,  \* the 1500 ms timer of the cleared popup is pending
  issued,      \* the number of save, delete and clear requests started
  last,        \* history: the call of saveNote the step just taken made, or
               \* the request it served, with the state before the step
  hist         \* history: the notes removed by the clears and the ids
               \* removed by the deletes that succeeded so far, and whether
               \* a clear succeeded with no save persisted since

vars == <<storage, clock, screen, homeNotes, alert, note, summary, queue,
          clearTimer, issued, last, hist>>

----------------------------------------------------------------------------
(* JavaScript values *)

Undefined == <<>>
NoError == "null"

\* a string is truthy unless empty; undefined is falsy
Truthy(s) == s # <<>>

IsWhiteSpace(c) == c = " "

RECURSIVE TrimStart(_)
TrimStart(s) ==
  IF s = <<>> THEN s
  ELSE IF IsWhiteSpace(Head(s)) THEN TrimStart(Tail(s)) ELSE s

RECURSIVE TrimEnd(_)
TrimEnd(s) ==
  IF s = <<>> THEN s
  ELSE IF IsWhiteSpace(s[Len(s)]) THEN TrimEnd(SubSeq(s, 1, Len(s) - 1)) ELSE s

\* String.prototype.trim
Trim(s) == TrimEnd(TrimStart(s))

Digits == <<"0", "1", "2", "3", "4", "5", "6", "7", "8", "9">>

\* Number.prototype.toString of an integer
RECURSIVE NumberToString(_)
NumberToString(n) ==
  IF n < 0 THEN <<"-">> \o NumberToString(0 - n)
  ELSE IF n < 10 THEN <<Digits[n + 1]>>
  ELSE NumberToString(n \div 10) \o <<Digits[(n % 10) + 1]>>

\* Date.prototype.toISOString of the time t, and Date.prototype.getTime of
\* the date parsed from it
toISOString(t) == [iso |-> t]
getTime(d) == d.iso

RECURSIVE Fill(_)
Fill(n) == IF n = 0 THEN <<>> ELSE Append(Fill(n - 1), "a")

\* the categories picked in the dropdown (the first one is the default)
CategoryInputs == {CATEGORIES[2]}

\* the categoryId route parameters NoteScreen is opened with when a caller
\* passes one: no screen of the application does
RouteCategoryInputs == {"archive"}

\* the texts the input field hands to handleContentChange: its maxLength
\* prop is MAX_CONTENT_LENGTH
TextInputs == { <<" ">>, <<" ", "b", " ">>, Fill(MAX_CONTENT_LENGTH) }

\* the texts handleContentChange is called with when it is called directly
HandlerTextInputs == TextInputs \cup { Fill(MAX_CONTENT_LENGTH + 1) }

----------------------------------------------------------------------------
(* Records *)

Absent == [present |-> FALSE, notes |-> <<>>]
Stored(notes) == [present |-> TRUE, notes |-> notes]

NoAlert == [kind |-> "none", noteId |-> Undefined, notes |-> <<>>]

\* NoteScreen as mounted with route.params.noteId = id
NoteMounted(id) ==
  [noteId |-> id, title |-> <<>>, content |-> <<>>,
   selectedCategory |-> CATEGORIES[1], error |-> NoError]

\* what a request of Home or Settings carries in the draft fields
NoDraft ==
  [noteId |-> Undefined, title |-> <<>>, content |-> <<>>,
   selectedCategory |-> Undefined]

\* a storage request with what its continuation closes over: the route's
\* noteId and the draft (title, content, selectedCategory) of the render that
\* issued it, and for a write the collection written
Request(op, who, d, value) ==
  [op |-> op, who |-> who, noteId |-> d.noteId, title |-> d.title,
   content |-> d.content, categoryId |-> d.selectedCategory, value |-> value]

HomeLoad == Request("get", "homeLoad", NoDraft, <<>>)

SummaryLoad == Request("get", "summaryLoad", NoDraft, <<>>)

\* useState<Record<string, number>>({}): the record without keys
NoCounts == [c \in {} |-> 0]

\* SummaryScreen as mounted, and the value kept while it is not
SummaryMounted == [mounted |-> TRUE, notes |-> <<>>, categoryCounts |-> NoCounts]
SummaryUnmounted ==
  [mounted |-> FALSE, notes |-> <<>>, categoryCounts |-> NoCounts]

\* what the history keeps of the state a request was served in
NoSnapshot ==
  [storage |-> Absent, screen |-> "Home", homeNotes |-> <<>>, queue |-> <<>>]

NoLast ==
  [kind |-> "none", ok |-> TRUE, alerted |-> FALSE, before |-> NoSnapshot,
   op |-> HomeLoad]

NoHist == [cleared |-> {}, deleted |-> {}, sinceClear |-> FALSE]

\* the set of the elements of the sequence s
Range(s) == { s[i] : i \in 1..Len(s) }

\* the index of the first element of s with the given id, 0 if there is none
Find(s, id) ==
  IF \E i \in 1..Len(s) : s[i].id = id
  THEN CHOOSE i \in 1..Len(s) :
         s[i].id = id /\ \A j \in 1..(i - 1) : s[j].id # id
  ELSE 0

----------------------------------------------------------------------------
(* HomeScreen: pure helpers *)

\* notes.filter(note => note.categoryId === categoryId)
FilterCategory(notes, categoryId) ==
  SelectSeq(notes, LAMBDA n : n.categoryId = categoryId)

\* Array.prototype.sort with the comparator
\* (a, b) => getTime(b.createdAt) - getTime(a.createdAt): descending, stable
RECURSIVE SortByCreatedDesc(_)
SortByCreatedDesc(s) ==
  IF s = <<>> THEN <<>>
  ELSE LET sorted == SortByCreatedDesc(SubSeq(s, 1, Len(s) - 1))
           n == s[Len(s)]
           k == Cardinality({i \in 1..Len(sorted) :
                  getTime(sorted[i].createdAt) >= getTime(n.createdAt)})
       IN SubSeq(sorted, 1, k) \o <<n>> \o SubSeq(sorted, k + 1, Len(sorted))

\* getLatestNotesForCategory without the sort
getLatestNotesUnsorted(notes, categoryId) ==
  LET filtered == FilterCategory(notes, categoryId)
  IN SubSeq(filtered, 1, IF Len(filtered) < 3 THEN Len(filtered) ELSE 3)

getLatestNotesForCategory(notes, categoryId) ==
  LET sorted == SortByCreatedDesc(FilterCategory(notes, categoryId))
  IN SubSeq(sorted, 1, IF Len(sorted) < 3 THEN Len(sorted) ELSE 3)

\* the ids of the notes renderCategorySection renders, each with its
\* press and swipe-to-delete handlers
DisplayedIds(notes) ==
  UNION { { getLatestNotesForCategory(notes, CATEGORIES[c])[i].id :
              i \in 1..Len(getLatestNotesForCategory(notes, CATEGORIES[c])) } :
          c \in 1..Len(CATEGORIES) }

\* notes.filter(note => note.id !== noteId)
FilterOutId(notes, noteId) == SelectSeq(notes, LAMBDA n : n.id # noteId)

----------------------------------------------------------------------------
(* SummaryScreen: pure helpers *)

CategoryIds == { CATEGORIES[i] : i \in 1..Len(CATEGORIES) }

\* the reduce without the filter on the category
CountsOfUnfiltered(loadedNotes) == [c \in CategoryIds |-> Len(loadedNotes)]

\* CATEGORIES.reduce(...): for every category the number of loaded notes
\* whose categoryId is its id
CountsOf(loadedNotes) ==
  [c \in CategoryIds |-> Len(FilterCategory(loadedNotes, c))]

\* categoryCounts[category.id] || 0
RenderedCount(categoryCounts, c) ==
  IF c \in DOMAIN categoryCounts /\ categoryCounts[c] # 0
  THEN categoryCounts[c]
  ELSE 0

\* the SummaryScreen state loadNotes sets from what getItem gave
SummaryLoaded(st, ok) ==
  IF ok /\ st.present
  THEN [mounted |-> TRUE, notes |-> st.notes,
        categoryCounts |-> CountsOf(st.notes)]
  ELSE SummaryMounted

----------------------------------------------------------------------------
(* NoteScreen: pure helpers *)

\* validateContent testing the content as typed
validateContentUntrimmed(content) == Truthy(content)

validateContent(content) ==
  IF ~Truthy(Trim(content)) THEN FALSE
  ELSE IF Len(Trim(content)) < MIN_CONTENT_LENGTH THEN FALSE
  ELSE TRUE

\* the message validateContent leaves in the error state
validateContentError(content) ==
  IF ~Truthy(Trim(content)) THEN "Note content is required"
  ELSE IF Len(Trim(content)) < MIN_CONTENT_LENGTH
       THEN "Note content must be at least 1 character long"
  ELSE NoError

\* the Save button's disabled prop
SaveDisabled == ~Truthy(Trim(note.content))

\* the newNote literal of saveNote; t1, t2, t3 are the clock readings of
\* Date.now() and of the two new Date(), in evaluation order
NewNote(d, notes, t1, t2, t3) ==
  [id |-> IF Truthy(d.noteId) THEN d.noteId ELSE NumberToString(t1),
   title |-> d.title,
   content |-> Trim(d.content),
   categoryId |-> d.categoryId,
   createdAt |->
     IF Truthy(d.noteId)
     THEN (IF Find(notes, d.noteId) # 0
           THEN notes[Find(notes, d.noteId)].createdAt
           ELSE toISOString(t2))
     ELSE toISOString(t2),
   updatedAt |-> toISOString(t3)]

\* notes.map(...) for an edit, notes.push(newNote) for a create
UpdatedNotes(d, notes, newNote) ==
  IF Truthy(d.noteId)
  THEN [i \in 1..Len(notes) |->
          IF notes[i].id = d.noteId THEN newNote ELSE notes[i]]
  ELSE Append(notes, newNote)

\* storedNotes ? JSON.parse(storedNotes) : []
ParseStored(st) == IF st.present THEN st.notes ELSE <<>>

----------------------------------------------------------------------------
(* Navigation and the request queue *)

\* no dialog is open, so the screen takes presses
Interactive == alert.kind = "none"

\* the user still has an operation to start
CanStart == issued < MaxOps

\* NoteScreen unmounts: the continuation of a pending loadNote sets the state
\* of a component that is gone, and has no effect
DropNoteLoads(q) == SelectSeq(q, LAMBDA r : r.who # "noteLoad")

\* SummaryScreen unmounts: likewise for a pending loadNotes of it
DropSummaryLoads(q) == SelectSeq(q, LAMBDA r : r.who # "summaryLoad")

\* the queue once the stack is popped to Home and Home receives focus: the
\* 'focus' listener runs loadNotes
FocusHome(q) == Append(DropSummaryLoads(DropNoteLoads(q)), HomeLoad)

\* the queue once NoteScreen is popped and Summary receives focus
FocusSummary(q) == Append(DropNoteLoads(q), SummaryLoad)

Snapshot ==
  [storage |-> storage, screen |-> screen, homeNotes |-> homeNotes,
   queue |-> queue]

Init ==
  /\ storage = Absent
  /\ clock = 0
  /\ screen = "Home"
  /\ homeNotes = <<>>
  /\ alert = NoAlert
  /\ note = NoteMounted(Undefined)
  /\ summary = SummaryUnmounted
  /\ queue = <<HomeLoad>>
  /\ clearTimer = FALSE
  /\ issued = 0
  /\ last = NoLast
  /\ hist = NoHist

\* the note an earlier session created at the time t, when the clock read
\* less than at the launch of this one
StoredNote(t, content, categoryId) ==
  [id |-> NumberToString(t), title |-> <<>>, content |-> content,
   categoryId |-> categoryId, createdAt |-> toISOString(t),
   updatedAt |-> toISOString(t)]

\* the application is launched with two notes persisted by an earlier session
InitStored ==
  /\ storage = Stored(<<StoredNote(0 - 2, <<"a">>, CATEGORIES[1]),
                        StoredNote(0 - 1, <<"b">>, CATEGORIES[2])>>)
  /\ clock = 0
  /\ screen = "Home"
  /\ homeNotes = <<>>
  /\ alert = NoAlert
  /\ note = NoteMounted(Undefined)
  /\ summary = SummaryUnmounted
  /\ queue = <<HomeLoad>>
  /\ clearTimer = FALSE
  /\ issued = 1   \* one operation fewer is left to start than in Init
  /\ last = NoLast
  /\ hist = NoHist

\* the times at which an earlier session created notes, and the notes it
\* may have left: the k-th took its id some time before its createdAt
StoredTimes == {0 - 3, 0 - 2, 0 - 1}

StoredChoices == StoredTimes \X {CATEGORIES[1], CATEGORIES[2]}

StoredCollections ==
  UNION { { [k \in 1..n |->
               [StoredNote(f[k][1], <<"a">>, f[k][2])
                  EXCEPT !.id = NumberToString(0 - 4 - k)]] :
            f \in [1..n -> StoredChoices] } : n \in 0..MaxStored }

\* the application is launched over any of these collections
InitLatest ==
  /\ storage \in { Stored(c) : c \in StoredCollections }
  /\ clock = 0
  /\ screen = "Home"
  /\ homeNotes = <<>>
  /\ alert = NoAlert
  /\ note = NoteMounted(Undefined)
  /\ summary = SummaryUnmounted
  /\ queue = <<HomeLoad>>
  /\ clearTimer = FALSE
  /\ issued = 0
  /\ last = NoLast
  /\ hist = NoHist

\* Cancel is pressed in a confirmation dialog
CancelAlert ==
  /\ alert.kind # "none"
  /\ alert' = NoAlert
  /\ last' = NoLast
  /\ UNCHANGED <<storage, clock, screen, homeNotes, note, queue, clearTimer,
                 issued, summary, hist>>

----------------------------------------------------------------------------
(* HomeScreen *)

\* the add button of Home or of Summary: navigation.navigate('Note', {})
OpenNewNote ==
  /\ screen \in {"Home", "Summary"} /\ Interactive /\ CanStart
  /\ screen' = "Note"
  /\ note' = NoteMounted(Undefined)
  /\ last' = NoLast
  /\ UNCHANGED <<storage, clock, homeNotes, alert, queue, clearTimer,
                 issued, summary, hist>>

\* navigation.navigate('Note', {categoryId}): the effect of the mounted
\* NoteScreen calls setSelectedCategory(route.params.categoryId)
OpenNoteWithCategory ==
  /\ screen \in {"Home", "Summary"} /\ Interactive /\ CanStart
  /\ \E c \in RouteCategoryInputs :
       note' = [NoteMounted(Undefined) EXCEPT !.selectedCategory = c]
  /\ screen' = "Note"
  /\ last' = NoLast
  /\ UNCHANGED <<storage, clock, homeNotes, alert, queue, clearTimer, issued,
                 summary, hist>>

\* a rendered note is pressed: navigation.navigate('Note', {noteId}), and the
\* effect of the mounted NoteScreen calls loadNote
OpenNote ==
  /\ screen = "Home" /\ Interactive /\ CanStart
  /\ Len(queue) < MaxQueue
  /\ \E id \in DisplayedIds(homeNotes) :
       /\ screen' = "Note"
       /\ note' = NoteMounted(id)
       /\ queue' = Append(queue,
            Request("get", "noteLoad", [NoDraft EXCEPT !.noteId = id], <<>>))
  /\ last' = NoLast
  /\ UNCHANGED <<storage, clock, homeNotes, alert, clearTimer, issued, summary, hist>>

\* deleteNote(noteId): the dialog's Delete handler closes over the notes of
\* the render that opened it
deleteNote ==
  /\ screen = "Home" /\ Interactive /\ CanStart
  /\ \E id \in DisplayedIds(homeNotes) :
       alert' = [kind |-> "delete", noteId |-> id, notes |-> homeNotes]
  /\ last' = NoLast
  /\ UNCHANGED <<storage, clock, screen, homeNotes, note, queue, clearTimer,
                 issued, summary, hist>>

\* the collection the Delete handler writes: notes is the notes state its
\* closure holds
DeleteUpdatedNotes(notes, noteId) == FilterOutId(notes, noteId)

\* Delete is pressed in the dialog: setItem is issued
ConfirmDelete ==
  /\ alert.kind = "delete"
  /\ Len(queue) < MaxQueue
  /\ CanStart
  /\ queue' = Append(queue,
       Request("set", "delete", [NoDraft EXCEPT !.noteId = alert.noteId],
               DeleteUpdatedNotes(alert.notes, alert.noteId)))
  /\ alert' = NoAlert
  /\ issued' = issued + 1
  /\ last' = NoLast
  /\ UNCHANGED <<storage, clock, screen, homeNotes, note, clearTimer, summary, hist>>

\* the settings icon: navigation.navigate('Settings')
OpenSettings ==
  /\ screen = "Home" /\ Interactive
  /\ screen' = "Settings"
  /\ last' = NoLast
  /\ UNCHANGED <<storage, clock, homeNotes, alert, note, queue, clearTimer,
                 issued, summary, hist>>

\* loadNotes leaving the notes state as it is when nothing could be read
LoadedNotesKeeping(st, ok) == IF ok /\ st.present THEN st.notes ELSE homeNotes

\* the notes state loadNotes sets from what getItem gave
LoadedNotes(st, ok) == IF ok /\ st.present THEN st.notes ELSE <<>>

\* loadNotes: getItem is served and setNotes runs
HomeLoadServed ==
  /\ queue # <<>>
  /\ Head(queue).who = "homeLoad"
  /\ \E ok \in BOOLEAN :
       /\ homeNotes' = LoadedNotes(storage, ok)
       /\ last' = [NoLast EXCEPT !.kind = "homeLoad", !.ok = ok]
  /\ queue' = Tail(queue)
  /\ UNCHANGED <<storage, clock, screen, alert, note, clearTimer, issued, summary, hist>>

\* the Delete handler once setItem is served: setNotes on success, the catch
\* block's dialog on failure
DeleteServedEffect(r, ok) ==
  /\ storage' = IF ok THEN Stored(r.value) ELSE storage
  /\ homeNotes' = IF ok THEN r.value ELSE homeNotes
  /\ hist' = IF ok THEN [hist EXCEPT !.deleted = @ \cup {r.noteId}] ELSE hist
  /\ last' = [kind |-> "delete", ok |-> ok, alerted |-> ~ok,
              before |-> Snapshot, op |-> r]

DeleteWriteServed ==
  /\ queue # <<>>
  /\ Head(queue).who = "delete"
  /\ \E ok \in BOOLEAN : DeleteServedEffect(Head(queue), ok)
  /\ queue' = Tail(queue)
  /\ UNCHANGED <<clock, screen, alert, note, clearTimer, issued, summary>>

\* the Summary entry of Home's bottom bar: navigation.navigate('Summary'),
\* and the effect of the mounted SummaryScreen calls loadNotes
OpenSummary ==
  /\ screen = "Home" /\ Interactive /\ CanStart
  /\ Len(queue) < MaxQueue
  /\ screen' = "Summary"
  /\ summary' = SummaryMounted
  /\ queue' = Append(queue, SummaryLoad)
  /\ last' = NoLast
  /\ UNCHANGED <<storage, clock, homeNotes, alert, note, clearTimer, issued, hist>>

----------------------------------------------------------------------------
(* SummaryScreen *)

\* the Home entry of Summary's bottom bar: navigation.navigate('Home')
SummaryToHome ==
  /\ screen = "Summary" /\ Interactive
  /\ Len(FocusHome(queue)) <= MaxQueue
  /\ screen' = "Home"
  /\ summary' = SummaryUnmounted
  /\ queue' = FocusHome(queue)
  /\ last' = NoLast
  /\ UNCHANGED <<storage, clock, homeNotes, alert, note, clearTimer, issued, hist>>

\* loadNotes of SummaryScreen: getItem is served, setNotes and
\* setCategoryCounts run
SummaryLoadServed ==
  /\ queue # <<>>
  /\ Head(queue).who = "summaryLoad"
  /\ \E ok \in BOOLEAN :
       /\ summary' = SummaryLoaded(storage, ok)
       /\ last' = [NoLast EXCEPT !.kind = "summaryLoad", !.ok = ok]
  /\ queue' = Tail(queue)
  /\ UNCHANGED <<storage, clock, screen, homeNotes, alert, note, clearTimer,
                 issued, hist>>

----------------------------------------------------------------------------
(* SettingsScreen *)

\* 'Delete All Notes' is pressed: the confirmation dialog opens
clearAllNotes ==
  /\ screen = "Settings" /\ Interactive /\ CanStart
  /\ alert' = [kind |-> "clear", noteId |-> Undefined, notes |-> <<>>]
  /\ last' = NoLast
  /\ UNCHANGED <<storage, clock, screen, homeNotes, note, queue, clearTimer,
                 issued, summary, hist>>

\* Delete is pressed in the dialog: removeItem is issued
ConfirmClear ==
  /\ alert.kind = "clear"
  /\ Len(queue) < MaxQueue
  /\ CanStart
  /\ queue' = Append(queue, Request("remove", "clear", NoDraft, <<>>))
  /\ alert' = NoAlert
  /\ issued' = issued + 1
  /\ last' = NoLast
  /\ UNCHANGED <<storage, clock, screen, homeNotes, note, clearTimer, summary, hist>>

\* the handler once removeItem is served: the popup and its timer on
\* success, the catch block's dialog on failure
ClearServedEffect(r, ok) ==
  /\ storage' = IF ok THEN Absent ELSE storage
  /\ clearTimer' = IF ok THEN TRUE ELSE clearTimer
  /\ hist' = IF ok
             THEN [hist EXCEPT !.cleared = @ \cup Range(storage.notes),
                               !.sinceClear = TRUE]
             ELSE hist
  /\ last' = [kind |-> "clear", ok |-> ok, alerted |-> ~ok,
              before |-> Snapshot, op |-> r]

ClearServed ==
  /\ queue # <<>>
  /\ Head(queue).who = "clear"
  /\ \E ok \in BOOLEAN : ClearServedEffect(Head(queue), ok)
  /\ queue' = Tail(queue)
  /\ UNCHANGED <<clock, screen, homeNotes, alert, note, issued, summary>>

\* the popup's timer fires: navigation.navigate('Home')
ClearTimerFires ==
  /\ clearTimer
  /\ clearTimer' = FALSE
  /\ IF screen = "Home"
     THEN UNCHANGED <<screen, note, queue>>
     ELSE /\ Len(FocusHome(queue)) <= MaxQueue
          /\ screen' = "Home"
          /\ note' = NoteMounted(Undefined)
          /\ queue' = FocusHome(queue)
  /\ summary' = SummaryUnmounted
  /\ last' = NoLast
  /\ UNCHANGED <<storage, clock, homeNotes, alert, issued, hist>>

\* the back arrow of Settings or of Note: navigation.goBack() pops to the
\* screen below, Home or Summary, which receives focus
GoBack ==
  /\ screen \in {"Settings", "Note"} /\ Interactive
  /\ IF screen = "Note" /\ summary.mounted
     THEN /\ Len(FocusSummary(queue)) <= MaxQueue
          /\ screen' = "Summary"
          /\ queue' = FocusSummary(queue)
     ELSE /\ Len(FocusHome(queue)) <= MaxQueue
          /\ screen' = "Home"
          /\ queue' = FocusHome(queue)
  /\ note' = NoteMounted(Undefined)
  /\ last' = NoLast
  /\ UNCHANGED <<storage, clock, homeNotes, alert, summary, clearTimer,
                 issued, hist>>

----------------------------------------------------------------------------
(* NoteScreen *)

\* handleContentChange without the length test
ContentAfterChangeUnchecked(content, text) == text

\* the content state after handleContentChange(text)
ContentAfterChange(content, text) ==
  IF Len(text) <= MAX_CONTENT_LENGTH THEN text ELSE content

handleContentChange(text) ==
  /\ screen = "Note" /\ Interactive /\ CanStart
  /\ note' = [note EXCEPT
                 !.content = ContentAfterChange(note.content, text),
                 !.error = IF Len(text) <= MAX_CONTENT_LENGTH
                           THEN NoError ELSE note.error]
  /\ last' = NoLast
  /\ UNCHANGED <<storage, clock, screen, homeNotes, alert, queue, clearTimer,
                 issued, summary, hist>>

\* the text of the input field changes
TypeContent == \E text \in TextInputs : handleContentChange(text)

\* handleContentChange is called whatever the field's maxLength prop
CallHandleContentChange ==
  \E text \in HandlerTextInputs : handleContentChange(text)

\* an entry of the category dropdown is pressed
SelectCategory ==
  /\ screen = "Note" /\ Interactive /\ CanStart
  /\ \E c \in CategoryInputs :
       note' = [note EXCEPT !.selectedCategory = c]
  /\ last' = NoLast
  /\ UNCHANGED <<storage, clock, screen, homeNotes, alert, queue, clearTimer,
                 issued, summary, hist>>

\* loadNote: getItem is served and the note found fills the form
NoteLoadServed ==
  /\ queue # <<>>
  /\ Head(queue).who = "noteLoad"
  /\ \E ok \in BOOLEAN :
       LET notes == ParseStored(storage)
           i == Find(notes, Head(queue).noteId)
       IN /\ note' = IF ok /\ storage.present /\ i # 0
                     THEN [note EXCEPT !.title = notes[i].title,
                                       !.content = notes[i].content,
                                       !.selectedCategory = notes[i].categoryId]
                     ELSE note
          /\ last' = [kind |-> "noteLoad", ok |-> ok, alerted |-> FALSE,
                      before |-> Snapshot,
                      op |-> Request("get", "noteLoad", note, <<>>)]
  /\ queue' = Tail(queue)
  /\ UNCHANGED <<storage, clock, screen, homeNotes, alert, clearTimer,
                 issued, summary, hist>>

\* saveNote up to its first await: validation, then getItem is issued
saveNote ==
  /\ screen = "Note" /\ Interactive
  /\ IF ~validateContent(note.content)
     THEN /\ note' = [note EXCEPT !.error = validateContentError(note.content)]
          /\ UNCHANGED <<queue, issued>>
     ELSE /\ Len(queue) < MaxQueue
          /\ CanStart
          /\ note' = [note EXCEPT !.error = NoError]
          /\ queue' = Append(queue, Request("get", "save", note, <<>>))
          /\ issued' = issued + 1
  /\ last' = [kind |-> "saveCall", ok |-> TRUE, alerted |-> FALSE,
              before |-> Snapshot, op |-> Request("get", "save", note, <<>>)]
  /\ UNCHANGED <<storage, clock, screen, homeNotes, alert, clearTimer, summary, hist>>

\* the Save button is pressed
PressSave == ~SaveDisabled /\ saveNote

\* saveNote is called whatever the button's disabled prop
CallSaveNote == saveNote

\* saveNote between its awaits: getItem is served, the collection is
\* rebuilt and setItem is issued; a failed read goes to the catch block
SaveReadServed ==
  /\ queue # <<>>
  /\ Head(queue).who = "save" /\ Head(queue).op = "get"
  /\ \E ok \in BOOLEAN :
       IF ok
       THEN \E t1 \in clock..MaxClock : \E t2 \in t1..MaxClock :
            \E t3 \in t2..MaxClock :
              LET r == Head(queue)
                  notes == ParseStored(storage)
                  newNote == NewNote(r, notes, t1, t2, t3)
              IN /\ queue' = Append(Tail(queue),
                      [r EXCEPT !.op = "set",
                                !.value = UpdatedNotes(r, notes, newNote)])
                 /\ clock' = t3
                 /\ last' = NoLast
       ELSE /\ queue' = Tail(queue)
            /\ last' = [kind |-> "saveRead", ok |-> FALSE, alerted |-> TRUE,
                        before |-> Snapshot, op |-> Head(queue)]
            /\ UNCHANGED clock
  /\ UNCHANGED <<storage, screen, homeNotes, alert, note, clearTimer,
                 issued, summary, hist>>

\* saveNote navigating to Home after the try block, whatever setItem did
SaveServedEffectNavigating(r, ok) ==
  /\ storage' = IF ok THEN Stored(r.value) ELSE storage
  /\ IF screen # "Home"
     THEN /\ screen' = "Home"
          /\ note' = NoteMounted(Undefined)
          /\ summary' = SummaryUnmounted
          /\ queue' = FocusHome(Tail(queue))
     ELSE /\ queue' = Tail(queue)
          /\ UNCHANGED <<screen, note, summary>>
  /\ hist' = IF ok THEN [hist EXCEPT !.sinceClear = FALSE] ELSE hist
  /\ last' = [kind |-> "save", ok |-> ok, alerted |-> ~ok,
              before |-> Snapshot, op |-> r]

\* saveNote once setItem is served: navigation.navigate('Home') on success,
\* the catch block's dialog on failure
SaveServedEffect(r, ok) ==
  /\ storage' = IF ok THEN Stored(r.value) ELSE storage
  /\ IF ok /\ screen # "Home"
     THEN /\ screen' = "Home"
          /\ note' = NoteMounted(Undefined)
          /\ summary' = SummaryUnmounted
          /\ queue' = FocusHome(Tail(queue))
     ELSE /\ queue' = Tail(queue)
          /\ UNCHANGED <<screen, note, summary>>
  /\ hist' = IF ok THEN [hist EXCEPT !.sinceClear = FALSE] ELSE hist
  /\ last' = [kind |-> "save", ok |-> ok, alerted |-> ~ok,
              before |-> Snapshot, op |-> r]

SaveWriteServed ==
  /\ queue # <<>>
  /\ Head(queue).who = "save" /\ Head(queue).op = "set"
  /\ \E ok \in BOOLEAN : SaveServedEffect(Head(queue), ok)
  /\ UNCHANGED <<clock, homeNotes, alert, clearTimer, issued>>

----------------------------------------------------------------------------
(* Specifications *)

Next ==
  \/ CancelAlert
  \/ OpenNewNote
  \/ OpenNote
  \/ deleteNote
  \/ ConfirmDelete
  \/ OpenSettings
  \/ OpenSummary
  \/ SummaryToHome
  \/ SummaryLoadServed
  \/ HomeLoadServed
  \/ DeleteWriteServed
  \/ clearAllNotes
  \/ ConfirmClear
  \/ ClearServed
  \/ ClearTimerFires
  \/ GoBack
  \/ TypeContent
  \/ SelectCategory
  \/ NoteLoadServed
  \/ PressSave
  \/ SaveReadServed
  \/ SaveWriteServed

\* the application as the user drives it
Spec == Init /\ [][Next]_vars

\* the application with the handlers of NoteScreen also called directly
NextHandlers == Next \/ CallSaveNote \/ CallHandleContentChange

SpecHandlers == Init /\ [][NextHandlers]_vars

\* the application launched over the notes of an earlier session
SpecStored == InitStored /\ [][Next]_vars

\* the application with NoteScreen also opened with a categoryId parameter
NextRoutes == Next \/ OpenNoteWithCategory

SpecRoutes == Init /\ [][NextRoutes]_vars

\* Home loading and rendering the notes of an earlier session, and a
\* rendered note being opened
NextLatest == HomeLoadServed \/ OpenNote \/ NoteLoadServed

SpecLatest == InitLatest /\ [][NextLatest]_vars

----------------------------------------------------------------------------
(* Properties *)

\* the collection persisted before the step just taken, and the one now
Before == ParseStored(last.before.storage)
Persisted == ParseStored(storage)

\* the step just taken served the setItem of a save, successfully
SaveDone == last.kind = "save" /\ last.ok
CreateDone == SaveDone /\ ~Truthy(last.op.noteId)
EditDone == SaveDone /\ Truthy(last.op.noteId)

\* C1: a successful create-mode save leaves the persisted collection equal
\* to the one persisted before it with one note appended, which carries the
\* trimmed draft content and the selected category and is the only note
\* with its id.
C1_CreateAppendsOneNote ==
  CreateDone =>
    /\ storage.present
    /\ Len(Persisted) = Len(Before) + 1
    /\ SubSeq(Persisted, 1, Len(Before)) = Before
    /\ Persisted[Len(Persisted)].content = Trim(last.op.content)
    /\ Persisted[Len(Persisted)].categoryId = last.op.categoryId
    /\ Cardinality({i \in 1..Len(Persisted) :
          Persisted[i].id = Persisted[Len(Persisted)].id}) = 1

\* C2: a successful save whose id matches no persisted note appends the
\* draft: the collection grows by one and holds a note with the draft's
\* content.
C2_MissingIdSaveAppends ==
  (EditDone /\ Find(Before, last.op.noteId) = 0) =>
    /\ Len(Persisted) = Len(Before) + 1
    /\ \E i \in 1..Len(Persisted) :
         Persisted[i].content = Trim(last.op.content)

\* C3: no two notes of the persisted collection have the same id.
C3_IdsUnique ==
  \A i, j \in 1..Len(storage.notes) :
    i # j => storage.notes[i].id # storage.notes[j].id

\* C4: a successful delete leaves the collection persisted before it with
\* the note of that id removed: one note fewer when the id was present, the
\* others kept in order, and no change when the id was absent.
C4_DeleteRemovesFromPersisted ==
  (last.kind = "delete" /\ last.ok) =>
    IF Find(Before, last.op.noteId) # 0
    THEN /\ Len(Persisted) = Len(Before) - 1
         /\ Persisted = FilterOutId(Before, last.op.noteId)
    ELSE Persisted = Before

\* C5: a successful save against an id of the persisted collection replaces
\* that entry in place: same size, the entry keeps its id and index and takes
\* the draft's content and category, every other entry is unchanged.
C5_EditReplacesInPlace ==
  (EditDone /\ Find(Before, last.op.noteId) # 0) =>
    LET i == Find(Before, last.op.noteId)
    IN /\ Len(Persisted) = Len(Before)
       /\ Persisted[i].id = last.op.noteId
       /\ Persisted[i].content = Trim(last.op.content)
       /\ Persisted[i].categoryId = last.op.categoryId
       /\ \A j \in 1..Len(Before) : j # i => Persisted[j] = Before[j]

\* C6: a successful edit-save leaves the createdAt of every note that stays
\* under the edited id as it was, and its updatedAt no earlier than before.
C6_EditKeepsCreatedAt ==
  EditDone =>
    \A i \in 1..Len(Before) :
      (i <= Len(Persisted) /\ Before[i].id = last.op.noteId
         /\ Persisted[i].id = last.op.noteId) =>
        /\ Persisted[i].createdAt = Before[i].createdAt
        /\ getTime(Persisted[i].updatedAt) >= getTime(Before[i].updatedAt)

\* C7: the note a create-mode save persists has createdAt equal to updatedAt.
C7_CreateTimestampsEqual ==
  (CreateDone /\ Persisted # <<>>) =>
    Persisted[Len(Persisted)].createdAt = Persisted[Len(Persisted)].updatedAt

\* C8: every persisted note has a trimmed content length between 1 and 200
\* and its content equals its own trimmed form.
C8_ContentLengthInvariant ==
  \A i \in 1..Len(storage.notes) :
    LET c == storage.notes[i].content
    IN /\ Len(Trim(c)) >= MIN_CONTENT_LENGTH
       /\ Len(Trim(c)) <= MAX_CONTENT_LENGTH
       /\ c = Trim(c)

\* a save of a padded draft has just been persisted beside a note of the
\* greatest length
C8_Witness ==
  /\ SaveDone
  /\ last.op.content # Trim(last.op.content)
  /\ \E i \in 1..Len(storage.notes) :
       Len(storage.notes[i].content) = MAX_CONTENT_LENGTH

\* C9: a call of saveNote with a draft whose trimmed content is empty
\* reports a validation error and changes neither the persisted collection,
\* nor the pending requests, nor the screen.
C9_InvalidSaveMutatesNothing ==
  (last.kind = "saveCall" /\ ~Truthy(Trim(last.op.content))) =>
    /\ note.error # NoError
    /\ storage = last.before.storage
    /\ queue = last.before.queue
    /\ screen = last.before.screen

\* saveNote has just rejected a draft of white space while notes are
\* persisted
C9_Witness ==
  /\ last.kind = "saveCall"
  /\ last.op.content = <<" ">>
  /\ note.error = "Note content is required"
  /\ storage.notes # <<>>

\* C10: a failed write of a save or a delete leaves the persisted collection
\* as it was, shows the error dialog, and neither navigates nor updates the
\* notes state of Home.
C10_WriteFailureChangesNothing ==
  (last.kind \in {"save", "delete"} /\ ~last.ok) =>
    /\ storage = last.before.storage
    /\ last.alerted
    /\ screen = last.before.screen
    /\ homeNotes = last.before.homeNotes

\* the write of a save that would have changed the persisted collection has
\* just failed on the note screen
C10_Witness ==
  /\ last.kind = "save" /\ ~last.ok
  /\ screen = "Note"
  /\ storage.present
  /\ last.op.value # storage.notes

\* C11: a failed storage read never surfaces an error: a load shows no
\* dialog, and a save whose read failed shows none either, treats the
\* collection as empty and issues the write of a collection that holds the
\* saved note.
C11_ReadFailuresNeverPropagate ==
  /\ (last.kind \in {"homeLoad", "summaryLoad", "saveRead"} /\ ~last.ok) =>
       ~last.alerted
  /\ (last.kind = "saveRead" /\ ~last.ok) =>
       \E i \in 1..Len(queue) :
         /\ queue[i].who = "save" /\ queue[i].op = "set"
         /\ \E j \in 1..Len(queue[i].value) :
              queue[i].value[j].content = Trim(last.op.content)

\* what a load of the collection is to give: the empty sequence when the
\* key is absent, holds an empty sequence or cannot be read, the persisted
\* notes in persisted order otherwise
ExpectedLoad ==
  IF ~last.ok \/ ~storage.present \/ storage.notes = <<>>
  THEN <<>>
  ELSE storage.notes

\* C12: a load of Home or of Summary shows no error and leaves in the notes
\* state the empty sequence when the key is absent, holds an empty sequence
\* or cannot be read, and the persisted notes in persisted order otherwise.
C12_LoadAllDegradesToEmpty ==
  /\ last.kind = "homeLoad" => (homeNotes = ExpectedLoad /\ ~last.alerted)
  /\ last.kind = "summaryLoad" =>
       (summary.notes = ExpectedLoad /\ ~last.alerted)

\* a load of Home has just failed while two notes are persisted and Home
\* showed notes
C12_Witness ==
  /\ last.kind = "homeLoad" /\ ~last.ok
  /\ Len(storage.notes) = 2
  /\ homeNotes = <<>>

\* the number of notes of the collection just read whose categoryId is c
PersistedCount(c) ==
  Cardinality({i \in 1..Len(ExpectedLoad) : ExpectedLoad[i].categoryId = c})

\* C14: after a load of Summary the count rendered for each of the three
\* categories is the number of persisted notes of that category, 0 for a
\* category without notes and for every category when the key is absent,
\* empty or unreadable; when every note has one of the three categories
\* the counts sum to the size of the collection.
C14_CountByCategory ==
  last.kind = "summaryLoad" =>
    /\ \A c \in CategoryIds :
         RenderedCount(summary.categoryCounts, c) = PersistedCount(c)
    /\ (\A i \in 1..Len(ExpectedLoad) :
          ExpectedLoad[i].categoryId \in CategoryIds) =>
         RenderedCount(summary.categoryCounts, CATEGORIES[1])
           + RenderedCount(summary.categoryCounts, CATEGORIES[2])
           + RenderedCount(summary.categoryCounts, CATEGORIES[3])
           = Len(ExpectedLoad)

\* Summary has just loaded two notes of two categories
C14_Witness ==
  /\ last.kind = "summaryLoad" /\ last.ok
  /\ RenderedCount(summary.categoryCounts, CATEGORIES[1]) = 1
  /\ RenderedCount(summary.categoryCounts, CATEGORIES[2]) = 1
  /\ RenderedCount(summary.categoryCounts, CATEGORIES[3]) = 0

\* C19: no note removed by a clear that succeeded and no id removed by a
\* delete that succeeded is in the persisted collection again.
C19_NoResurrection ==
  \A i \in 1..Len(storage.notes) :
    /\ storage.notes[i] \notin hist.cleared
    /\ storage.notes[i].id \notin hist.deleted

\* C13: a clear that succeeded has removed the key, and a load of Home
\* served after it, with no save persisted in between, leaves the empty
\* sequence in the notes state.
C13_ClearThenLoadIsEmpty ==
  /\ (last.kind = "clear" /\ last.ok) => ~storage.present
  /\ (last.kind = "homeLoad" /\ hist.sinceClear) => homeNotes = <<>>

\* what Home renders for the category c
Latest(c) == getLatestNotesForCategory(homeNotes, c)

\* the indices of the notes state of the category c
OfCategory(c) == { k \in 1..Len(homeNotes) : homeNotes[k].categoryId = c }

\* the note at index k of the notes state comes before the one at index l
\* in the order of the list: created later, or at the same time and earlier
\* in the collection
Precedes(k, l) ==
  \/ getTime(homeNotes[k].createdAt) > getTime(homeNotes[l].createdAt)
  \/ /\ getTime(homeNotes[k].createdAt) = getTime(homeNotes[l].createdAt)
     /\ k < l

\* C15: for every category the list Home renders has at most 3 entries, as
\* many as the category has notes if fewer, all of that category, ordered
\* by createdAt descending with equal createdAt in collection order, and
\* every note of the category left out comes after every entry in that
\* order.
C15_LatestForCategory ==
  \A c \in CategoryIds :
    \E ix \in [1..Len(Latest(c)) -> OfCategory(c)] :
      /\ Len(Latest(c)) <= 3
      /\ Len(Latest(c)) = IF Cardinality(OfCategory(c)) < 3
                          THEN Cardinality(OfCategory(c)) ELSE 3
      /\ \A i \in 1..Len(Latest(c)) :
           /\ Latest(c)[i] = homeNotes[ix[i]]
           /\ Latest(c)[i].categoryId = c
      /\ \A i, j \in 1..Len(Latest(c)) : i < j => Precedes(ix[i], ix[j])
      /\ \A k \in OfCategory(c) :
           (\A i \in 1..Len(Latest(c)) : ix[i] # k) =>
             \A i \in 1..Len(Latest(c)) : Precedes(ix[i], k)

\* Home shows four notes of the first category, two of them created at the
\* same time, and renders three of them
C15_Witness ==
  /\ Cardinality(OfCategory(CATEGORIES[1])) = 4
  /\ Len(Latest(CATEGORIES[1])) = 3
  /\ \E i, j \in 1..3 :
       /\ i # j
       /\ Latest(CATEGORIES[1])[i].createdAt = Latest(CATEGORIES[1])[j].createdAt
  /\ Latest(CATEGORIES[1])[1] # homeNotes[1]

\* C16: every persisted note has the id of one of the three categories as
\* its categoryId.
C16_CategoryIdValid ==
  \A i \in 1..Len(storage.notes) :
    storage.notes[i].categoryId \in CategoryIds

\* C17: a delete writes a collection computed from the collection persisted
\* when it runs: every note persisted before a successful delete whose id is
\* not the deleted one is still persisted after it.
C17_DeleteKeepsOtherNotes ==
  (last.kind = "delete" /\ last.ok) =>
    \A i \in 1..Len(Before) :
      Before[i].id # last.op.noteId => Before[i] \in Range(Persisted)

\* the mutating operations awaiting storage: the requests of save, delete
\* and clear in the queue, a save counting from its read to its write
Mutating == { i \in 1..Len(queue) : queue[i].who \in {"save", "delete", "clear"} }

\* C18: at most one mutating operation (save, delete or clear) is in flight
\* at any time.
C18_OneMutationInFlight == Cardinality(Mutating) <= 1

\* Home is the focused screen and nothing is pending: no request awaits
\* storage, no dialog is open and no timer runs
HomeQuiescent ==
  screen = "Home" /\ queue = <<>> /\ alert.kind = "none" /\ ~clearTimer

\* C20: whenever Home is focused and no load, delete, save or clear is
\* pending, the notes state of Home is the persisted collection, the empty
\* list when the key is absent.
C20_HomeQuiescentConsistency == HomeQuiescent => homeNotes = Persisted

\* the category ids an edit-save may write for a note stored with the
\* category c: c itself, or one the user picked in the dropdown
AllowedCategories(c) == {c} \cup CategoryInputs

\* C21: an edit-save of a persisted note writes the note's stored title and
\* its stored categoryId unless the user picked another, and the load of the
\* note, when it completes after the user typed, leaves the typed content in
\* the form the save will read.
C21_EditDraftIntegrity ==
  /\ (EditDone /\ Find(Before, last.op.noteId) # 0) =>
       LET i == Find(Before, last.op.noteId)
       IN /\ Persisted[i].categoryId \in AllowedCategories(Before[i].categoryId)
          /\ Persisted[i].title = Before[i].title
  /\ (last.kind = "noteLoad" /\ Truthy(last.op.content)) =>
       note.content = last.op.content

====
